---- MODULE Spec2Model ----
(***************************************************************************)
(* Model of the courier-vacancy publication pipeline:                      *)
(*   scripts/parser.py           - scraper, upsert_vacancy                 *)
(*   scripts/publisher_logic.py  - selector, renderer, publisher           *)
(*   scripts/publisher_config.py - PUBLISH_CONFIG, CITIES                  *)
(*                                                                         *)
(* Strings are modelled by a stem and a length: Txt(s, n) stands for the   *)
(* string that starts with s and is padded to n characters.  Timestamps    *)
(* are whole days.  An optional value (None / SQL NULL) is the empty       *)
(* sequence, a present value x is <<x>>.                                   *)
(***************************************************************************)
EXTENDS Integers, Sequences, FiniteSets, TLC

VARIABLES
    store,        \* table "vacancies": ad id -> row, or NoRow
    now,          \* wall clock, in days
    upserts,      \* number of upsert_vacancy calls made so far
    pc,           \* position of the publisher process
    run,          \* number of publisher runs started
    startup,      \* how the last run left main_publisher's preamble, or
                  \* "interrupted" when the run was ended by KeyboardInterrupt
    cityIdx,      \* index into CITIES of the city being processed
    vacancies,    \* publish_city_vacancies: the selection (list of rows)
    frame,        \* format_post_with_vacancies: argument and depth of the current call
    post,         \* publish_city_vacancies: (post_text, button_url), or NoPost
    results,      \* main_publisher: results dict, city slug -> count
    all_success,  \* main_publisher: all_success
    outcome,      \* per city: what publish_city_vacancies returned in this run
    faults,       \* per city: which external call failed in this run
    gateway,      \* sendMessage requests of this run
    marks,        \* mark updates (UPDATE ... WHERE id IN ids) of this run
    delivered,    \* messages accepted by the channel, all runs
    exit_code,    \* exit code of the last finished run, or NoExit
    env,          \* environment values present when the last run started
    response,     \* get_vacancies_for_publication: response.data of the last query
    call          \* a function called on its own: its arguments and results, or NoCall

vars == <<store, now, upserts, pc, run, startup, cityIdx, vacancies, frame, post,
          results, all_success, outcome, faults, gateway, marks, delivered,
          exit_code, env, response, call>>

-----------------------------------------------------------------------------
(* Bounds of the model *)

MaxRuns == 2        \* publisher runs per behaviour
MaxUpserts == 1     \* scraper upserts per behaviour
MaxDay == 15        \* last day the clock reaches
MaxDepth == 3       \* nested format_post_with_vacancies calls before RecursionError
MaxSel == 6         \* longest selection handed to the renderer on its own
MaxData == 5        \* most eligible rows in the table the selector is run on
MaxTarget == 4      \* largest target_count the selector is called with
MaxCap == 2         \* largest max_per_company the selector is called with
MaxMarkCalls == 2   \* calls of mark_vacancies_as_posted made on its own

-----------------------------------------------------------------------------
(* Values *)

None == <<>>
Some(x) == <<x>>
IsSome(o) == o /= <<>>
Txt(s, n) == [stem |-> s, len |-> n]
Min(a, b) == IF a < b THEN a ELSE b
Take(s, n) == SubSeq(s, 1, Min(n, Len(s)))
Range(s) == {s[i] : i \in DOMAIN s}

-----------------------------------------------------------------------------
(* Configuration: publisher_config.py *)

CITIES ==
    << [slug |-> "msk", channel |-> "@courier_jobs_msk", name_len |-> 6],
       [slug |-> "spb", channel |-> "@courier_jobs_spb", name_len |-> 15],
       [slug |-> "nsk", channel |-> "@courier_jobs_nsk", name_len |-> 11],
       [slug |-> "ekb", channel |-> "@courier_jobs_ekb", name_len |-> 12],
       [slug |-> "kzn", channel |-> "@courier_jobs_kzn", name_len |-> 6] >>

CitySlugs == {CITIES[i].slug : i \in DOMAIN CITIES}
CityOf(slug) == CHOOSE i \in DOMAIN CITIES : CITIES[i].slug = slug

vacancies_per_post == 10
max_vacancies_per_company == 2
max_vacancy_age_days == 30
max_parsed_age_days == 14
ConfigCurrency == "RUR"
referral_link_len == 20

-----------------------------------------------------------------------------
(* Renderer: format_salary_display, format_post_with_vacancies *)

MaxMessageLen == 4096
TruncateTo == 5

HeaderFixedLen == 40     \* "<b>.. Новые вакансии курьеров в г. " + "</b>\n\n"
CtaFixedLen == 307       \* the call-to-action block without the link
SectionFixedLen == 26    \* "<b>" ". <a href='" "'>" "</a></b>\n\n"
LinePrefixLen == 2       \* emoji and a space
DividerLen == 6          \* "\n---\n\n"
NotSpecifiedLen == 10    \* "не указана"
RubleLen == 2            \* " ₽"
FromLen == 3             \* "от "
ToLen == 4               \* " до "
FrequencyDefaultLen == 12 \* ", не указано"

NotSpecified == Txt("ne_ukazano", 10)

RECURSIVE Digits(_)
Digits(n) == IF n < 10 THEN 1 ELSE 1 + Digits(n \div 10)

\* len(f"{n:,}".replace(",", " "))
GroupedLen(n) == Digits(n) + (Digits(n) - 1) \div 3

\* a column of a stored row that holds NULL, None in Python
Null == [null |-> TRUE]

\* the characters str.strip() removes, those for which str.isspace() holds:
\* U+0009..U+000D, U+001C..U+001F, the blank, U+0085, U+00A0 and U+1680.
\* The others (U+2000..U+200A, U+2028, U+2029, U+202F, U+205F, U+3000) are
\* not characters a string of this module can hold
Whitespace ==
    {"\t", "\n", "", "\f", "\r", "", "", "", "", " ",
     "", " ", " "}

RECURSIVE LStrip(_)
LStrip(s) ==
    IF Len(s) > 0 /\ SubSeq(s, 1, 1) \in Whitespace
    THEN LStrip(SubSeq(s, 2, Len(s)))
    ELSE s

RECURSIVE RStrip(_)
RStrip(s) ==
    IF Len(s) > 0 /\ SubSeq(s, Len(s), Len(s)) \in Whitespace
    THEN RStrip(SubSeq(s, 1, Len(s) - 1))
    ELSE s

\* t.strip() of a text t = Txt(stem, len), which stands for stem followed by
\* len - Len(stem) characters "x"
Strip(t) ==
    LET l == LStrip(t.stem)
    IN  IF t.len > Len(t.stem)
        THEN Txt(l, t.len - (Len(t.stem) - Len(l)))
        ELSE Txt(RStrip(l), Len(RStrip(l)))

\* Python truth value of an optional number / optional string
TruthyNum(o) == IsSome(o) /\ o[1] /= 0
TruthyTxt(o) == IsSome(o) /\ o[1].len > 0

\* x and x.strip(): the value is there, is not NULL and is not blank
TruthyStripped(o) == IsSome(o) /\ o[1] /= Null /\ Strip(o[1]).len > 0

\* len(f"{x}") of a column: 4 for NULL, printed as None
ShownLen(x) == IF x = Null THEN 4 ELSE x.len

\* len(format_salary_display(vacancy))
format_salary_display(v) ==
    LET sf == v.salary_from_net
        st == v.salary_to_net
        amount ==
            IF TruthyNum(sf) /\ TruthyNum(st)
            THEN IF sf[1] = st[1]
                 THEN GroupedLen(sf[1]) + RubleLen
                 ELSE FromLen + GroupedLen(sf[1]) + ToLen + GroupedLen(st[1]) + RubleLen
            ELSE IF TruthyNum(sf) THEN FromLen + GroupedLen(sf[1]) + RubleLen
            ELSE GroupedLen(st[1]) + RubleLen
        frequency ==
            IF TruthyTxt(v.salary_frequency_name)
            THEN IF v.salary_frequency_name[1] = NotSpecified
                 THEN 0
                 ELSE 2 + v.salary_frequency_name[1].len
            ELSE FrequencyDefaultLen
        period ==
            IF TruthyTxt(v.salary_period_name)
            THEN 2 + v.salary_period_name[1].len + frequency + 1
            ELSE 0
    IN  IF ~TruthyNum(sf) /\ ~TruthyNum(st)
        THEN NotSpecifiedLen
        ELSE amount + period

\* one optional line "<emoji> <text>\n"
OptLineLen(o) == IF TruthyStripped(o) THEN LinePrefixLen + o[1].len + 1 ELSE 0

\* len(vacancy_text) of entry i of n
SectionLen(v, i, n) ==
    SectionFixedLen + Digits(i) + v.external_url.len + ShownLen(v.title)
    + OptLineLen(Some(v.employer))
    + LinePrefixLen + format_salary_display(v) + 1
    + OptLineLen(v.schedule_name)
    + OptLineLen(v.experience_name)
    + (IF i < n THEN DividerLen ELSE 0)

RECURSIVE SumSections(_, _)
SumSections(vs, i) ==
    IF i > Len(vs) THEN 0
    ELSE SectionLen(vs[i], i, Len(vs)) + SumSections(vs, i + 1)

\* len(post_text) for a non-empty list of vacancies
PostLen(vs, name_len) ==
    HeaderFixedLen + name_len
    + (IF referral_link_len > 0 THEN CtaFixedLen + referral_link_len ELSE 0)
    + SumSections(vs, 1)

EmptyPostLen == 33       \* "Нет новых вакансий для публикации"

-----------------------------------------------------------------------------
(* The job board: the ads the scraper can see.  format_vacancy (parser.py)  *)
(* maps one ad to the columns below; the *_net columns are the store's.     *)

Ad(id, city, employer, title, sal_from, sal_to, currency, published) ==
    [id |-> id, city_slug |-> city, employer |-> employer, title |-> title,
     external_url |-> Txt("u", 30),
     salary_from_net |-> sal_from, salary_to_net |-> sal_to,
     salary_period_name |-> Some(Txt("p", 8)),
     salary_frequency_name |-> None,
     schedule_name |-> Some(Txt("s", 11)),
     experience_name |-> None,
     currency |-> currency, published_at |-> published]

Catalogue ==
    << Ad(1, "msk", Txt("A", 5), Txt("t1", 600), None, Some(90000), Some("RUR"), 0),
       Ad(2, "msk", Txt("A", 5), Txt("t2", 600), Some(60000), Some(85000), Some("RUR"), 0),
       Ad(3, "msk", Txt("B", 5), Txt("t3", 600), Some(80000), Some(80000), Some("RUR"), 0),
       Ad(4, "msk", Txt("B", 5), Txt("t4", 600), None, Some(75000), Some("RUR"), 0),
       Ad(5, "msk", Txt("C", 5), Txt("t5", 600), None, Some(70000), Some("RUR"), 0),
       Ad(6, "msk", Txt("D", 5), Txt("t6", 600), None, Some(65000), Some("RUR"), 0),
       Ad(7, "spb", Txt("F", 5), Txt("t7", 4000), None, Some(60000), Some("RUR"), 0),
       Ad(8, "nsk", Txt("E", 5), Txt("t8", 20), None, Some(50000), Some("RUR"), 0),
       Ad(9, "nsk", Txt("E", 5), Txt("t9", 20), None, Some(45000), Some("RUR"), 0),
       Ad(10, "nsk", Txt("E", 5), Txt("t10", 20), Some(30000), None, Some("RUR"), 0),
       Ad(11, "ekb", Txt("G", 5), Txt("t11", 20), None, Some(1000), Some("USD"), 0),
       Ad(12, "ekb", Txt("", 0), Txt("t12", 20), None, Some(40000), Some("RUR"), 0),
       Ad(13, "kzn", Txt("H", 5), Txt("t13", 70), None, None, None, 0),
       Ad(14, "kzn", Txt("H", 5), Txt("t14", 20), None, Some(55000), Some("RUR"), -40) >>

Ads == DOMAIN Catalogue
\* ads the scraper may not have stored yet in the initial state, or may have
\* stored through format_vacancy's except branch
LateAds == {10}
Listed == {6, 8, 10}   \* ads the job board still returns for the scraper's date window

-----------------------------------------------------------------------------
(* Listing store: table "vacancies" *)

NoRow == [present |-> FALSE, is_posted |-> FALSE, posted_at |-> None,
          channel_id |-> None, currency |-> None, created_at |-> 0,
          updated_at |-> None]

\* the row after INSERT of format_vacancy(ad): is_posted and created_at are
\* column defaults, channel_id and currency are written by format_vacancy
InsertedRow(a, day) ==
    [present |-> TRUE, is_posted |-> FALSE, posted_at |-> None,
     channel_id |-> Some(CITIES[CityOf(Catalogue[a].city_slug)].channel),
     currency |-> Catalogue[a].currency,
     created_at |-> day, updated_at |-> None]

\* the row after INSERT of what format_vacancy's except branch returns (the
\* ad's work_schedule_by_days or working_hours is not a list of dicts): only
\* external_id, source, title, employer, city_slug, published_at and
\* external_url are written, channel_id and currency stay NULL
InsertedRowFallback(a, day) ==
    [present |-> TRUE, is_posted |-> FALSE, posted_at |-> None,
     channel_id |-> None, currency |-> None,
     created_at |-> day, updated_at |-> None]

\* is_posted written by the UPDATE of upsert_vacancy on a duplicate key
UpsertIsPosted(old) == FALSE

\* the row after the UPDATE of upsert_vacancy on a duplicate key
UpdatedRow(a, old, day) ==
    [old EXCEPT !.is_posted = UpsertIsPosted(old.is_posted),
                !.channel_id = Some(CITIES[CityOf(Catalogue[a].city_slug)].channel),
                !.currency = Catalogue[a].currency,
                !.updated_at = Some(day)]

\* the same UPDATE with the columns of format_vacancy's except branch:
\* channel_id and currency are not in the payload and keep their values
UpdatedRowFallback(a, old, day) ==
    [old EXCEPT !.is_posted = UpsertIsPosted(old.is_posted),
                !.updated_at = Some(day)]

\* variant: the update flips is_posted instead of setting it
MarkedStoreToggle(st, ids, channel, day) ==
    [a \in Ads |->
        IF a \in ids /\ st[a].present
        THEN [st[a] EXCEPT !.is_posted = ~@, !.posted_at = Some(day),
                           !.channel_id = Some(channel), !.updated_at = Some(day)]
        ELSE st[a]]

\* the table after mark_vacancies_as_posted's UPDATE ... WHERE id IN ids
MarkedStore(st, ids, channel, day) ==
    [a \in Ads |->
        IF a \in ids /\ st[a].present
        THEN [st[a] EXCEPT !.is_posted = TRUE, !.posted_at = Some(day),
                           !.channel_id = Some(channel), !.updated_at = Some(day)]
        ELSE st[a]]

-----------------------------------------------------------------------------
(* Selector: get_vacancies_for_publication *)

\* max_vacancy_date = now - timedelta(days=max_vacancy_age_days)
MaxVacancyDate(day) == day - max_vacancy_age_days

\* variant: the first-seen window is far wider than configured
MaxParsedDateLoose(day) == day - 100 * max_parsed_age_days

\* max_parsed_date = now - timedelta(days=max_parsed_age_days)
MaxParsedDate(day) == day - max_parsed_age_days

\* variant: the query does not filter on is_posted
EligiblePosted(st, day, slug) ==
    {a \in Ads :
        /\ st[a].present
        /\ Catalogue[a].city_slug = slug
        /\ st[a].currency = Some(ConfigCurrency)
        /\ Catalogue[a].published_at >= MaxVacancyDate(day)
        /\ st[a].created_at >= MaxParsedDate(day)}

\* variant: the query does not filter on the currency
EligibleAnyCurrency(st, day, slug) ==
    {a \in Ads :
        /\ st[a].present
        /\ Catalogue[a].city_slug = slug
        /\ st[a].is_posted = FALSE
        /\ Catalogue[a].published_at >= MaxVacancyDate(day)
        /\ st[a].created_at >= MaxParsedDate(day)}

\* the WHERE clause of the query
Eligible(st, day, slug) ==
    {a \in Ads :
        /\ st[a].present
        /\ Catalogue[a].city_slug = slug
        /\ st[a].is_posted = FALSE
        /\ st[a].currency = Some(ConfigCurrency)
        /\ Catalogue[a].published_at >= MaxVacancyDate(day)
        /\ st[a].created_at >= MaxParsedDate(day)}

\* ORDER BY salary_to_net DESC, published_at DESC: v sorts strictly before w
\* (DESC puts NULL first in the store)
SortsBefore(v, w) ==
    \/ ~IsSome(v.salary_to_net) /\ IsSome(w.salary_to_net)
    \/ /\ IsSome(v.salary_to_net) /\ IsSome(w.salary_to_net)
       /\ v.salary_to_net[1] > w.salary_to_net[1]
    \/ /\ v.salary_to_net = w.salary_to_net
       /\ v.published_at > w.published_at

\* every order in which the store may return the set of rows R
RECURSIVE OrderedRows(_)
OrderedRows(R) ==
    IF R = {} THEN {<<>>}
    ELSE UNION { {<<m>> \o t : t \in OrderedRows(R \ {m})} :
                 m \in {x \in R : \A y \in R : ~SortsBefore(y, x)} }

\* every order in which the store may return the ads of S
Ordered(S) == OrderedRows({Catalogue[a] : a \in S})

\* query.limit(initial_limit), initial_limit = target_count * 3
Limited(rows, target_count) == Take(rows, target_count * 3)

\* response.data: ordered, LIMIT target_count * 3
Responses(st, day, slug, target_count) ==
    {Limited(r, target_count) : r \in Ordered(Eligible(st, day, slug))}

\* str(x).strip() of a column: the stripped text, "None" for NULL
Str(x) == IF x = Null THEN Txt("None", 4) ELSE Strip(x)

\* title[:60]
TitleKeyLen == 60

\* the string of n characters "x", n <= TitleKeyLen from the table
RECURSIVE PadString(_)
PadString(n) == IF n <= 0 THEN "" ELSE "x" \o PadString(n - 1)

Pads == [n \in 0..TitleKeyLen |-> PadString(n)]

Pad(n) == IF n \in DOMAIN Pads THEN Pads[n] ELSE PadString(n)

\* the characters of a text
Chars(t) == t.stem \o Pad(t.len - Len(t.stem))

\* t[:n]
Prefix(t, n) ==
    IF Len(t.stem) >= n THEN SubSeq(t.stem, 1, n)
    ELSE t.stem \o Pad(Min(t.len, n) - Len(t.stem))

\* title_key = f"{employer}_{title[:60]}": one string
TitleKey(v) == Chars(Str(v.employer)) \o "_" \o Prefix(Str(v.title), TitleKeyLen)

\* variant: seen_titles is never filled
SeenTitlesForgotten(filtered) == {}

\* seen_titles: the keys of the vacancies added so far
SeenTitles(filtered) == {TitleKey(filtered[k]) : k \in DOMAIN filtered}
CompanyCount(filtered, employer) ==
    Cardinality({k \in DOMAIN filtered :
                    Chars(Str(filtered[k].employer)) = Chars(Str(employer))})

\* if not employer or not title, on the converted columns
Blank(v) == Str(v.employer).len = 0 \/ Str(v.title).len = 0

\* variant: the first pass does not count vacancies per company
RECURSIVE Pass1NoCap(_, _, _, _, _)
Pass1NoCap(data, i, filtered, target_count, max_per_company) ==
    IF i > Len(data) THEN filtered
    ELSE IF \/ Blank(data[i])
            \/ TitleKey(data[i]) \in SeenTitles(filtered)
         THEN Pass1NoCap(data, i + 1, filtered, target_count, max_per_company)
         ELSE IF Len(filtered) + 1 >= target_count
              THEN Append(filtered, data[i])
              ELSE Pass1NoCap(data, i + 1, Append(filtered, data[i]),
                              target_count, max_per_company)

\* first pass, from response.data[i] on
RECURSIVE Pass1(_, _, _, _, _)
Pass1(data, i, filtered, target_count, max_per_company) ==
    IF i > Len(data) THEN filtered
    ELSE IF \/ Blank(data[i])
            \/ TitleKey(data[i]) \in SeenTitles(filtered)
            \/ CompanyCount(filtered, data[i].employer) >= max_per_company
         THEN Pass1(data, i + 1, filtered, target_count, max_per_company)
         ELSE IF Len(filtered) + 1 >= target_count
              THEN Append(filtered, data[i])
              ELSE Pass1(data, i + 1, Append(filtered, data[i]),
                         target_count, max_per_company)

\* second pass, without the per-company cap
RECURSIVE Pass2(_, _, _, _)
Pass2(data, i, filtered, target_count) ==
    IF i > Len(data) THEN filtered
    ELSE IF Blank(data[i]) \/ TitleKey(data[i]) \in SeenTitles(filtered)
         THEN Pass2(data, i + 1, filtered, target_count)
         ELSE IF Len(filtered) + 1 >= target_count
              THEN Append(filtered, data[i])
              ELSE Pass2(data, i + 1, Append(filtered, data[i]), target_count)

\* if len(filtered_vacancies) < target_count and
\*    len(filtered_vacancies) < len(response.data)
NeedsPass2(data, first, target_count) ==
    Len(first) < target_count /\ Len(first) < Len(data)

\* the list get_vacancies_for_publication returns for response.data = data
SelectFrom(data, target_count, max_per_company) ==
    IF data = <<>> THEN <<>>
    ELSE LET first == Pass1(data, 1, <<>>, target_count, max_per_company)
         IN  IF NeedsPass2(data, first, target_count)
             THEN Pass2(data, Len(first) + 1, first, target_count)
             ELSE first

-----------------------------------------------------------------------------
(* Publisher: decisions of publish_city_vacancies and main_publisher *)

RequiredEnv == {"SUPABASE_URL", "SUPABASE_KEY", "TG_BOT_TOKEN"}

\* variant: only the store URL is checked
ConfigOkLax(e) == "SUPABASE_URL" \in e

\* if not supabase_url or not supabase_key or not bot_token: return False, {}
ConfigOk(e) == RequiredEnv \subseteq e

\* variant: the size guard compares with a larger ceiling
NeedsTruncationLoose(text_len) == text_len > MaxMessageLen + 1000

\* if len(post_text) > 4096
NeedsTruncation(text_len) == text_len > MaxMessageLen

\* the argument of the recursive call: vacancies[:5]
Truncated(vs) == Take(vs, TruncateTo)

\* variant: the result of the send is not checked
AfterSendUnchecked(success) == "mark"

\* after publish_to_telegram: "if not success: return False, ..., 0"
AfterSend(success) == IF success THEN "mark" ELSE "return"

\* variant: a failed mark update fails the city
ReturnAfterMarkStrict(mark_success, n) ==
    [returned |-> TRUE, success |-> mark_success,
     count |-> IF mark_success THEN n ELSE 0, message |-> "published"]

\* what publish_city_vacancies returns after the mark update
ReturnAfterMark(mark_success, n) ==
    [returned |-> TRUE, success |-> TRUE, count |-> n, message |-> "published"]

\* variant: a failed send is reported as a publication
ReturnSendErrorAsPublished ==
    [returned |-> TRUE, success |-> TRUE, count |-> 1, message |-> "published"]

\* what publish_city_vacancies returns when the send failed
ReturnSendError ==
    [returned |-> TRUE, success |-> FALSE, count |-> 0, message |-> "send_error"]

\* variant: an empty selection is reported as a failure
ReturnNoVacanciesFailed ==
    [returned |-> TRUE, success |-> FALSE, count |-> 0, message |-> "no_vacancies"]

\* what publish_city_vacancies returns for an empty selection
ReturnNoVacancies ==
    [returned |-> TRUE, success |-> TRUE, count |-> 0, message |-> "no_vacancies"]

\* variant: the exception handler reports the city as one without vacancies
ReturnCriticalSwallowed ==
    [returned |-> TRUE, success |-> TRUE, count |-> 0, message |-> "critical"]

\* what the "except Exception" of publish_city_vacancies returns
ReturnCritical ==
    [returned |-> TRUE, success |-> FALSE, count |-> 0, message |-> "critical"]

\* what get_vacancies_for_publication returns when query.execute() raises
SelectionOnQueryError == <<>>

\* variant: all_success is overwritten by the last city's result
AllSuccessLastCity(all, success) == success

\* all_success after one city: "if success ... else all_success = False"
AllSuccessAfter(all, success) == all /\ success

\* variant: the loop stops at the first failed city
NextPcStopOnFailure(idx, success) ==
    IF success /\ idx < Len(CITIES) THEN "city" ELSE "finish"

\* the for loop over CITIES goes on whatever the city returned
NextPc(idx, success) == IF idx < Len(CITIES) THEN "city" ELSE "finish"

\* variant: the entry point always exits with 0
ExitCodeZero(success) == 0

\* sys.exit code of the entry point
ExitCode(success) == IF success THEN 0 ELSE 1

\* except KeyboardInterrupt: sys.exit(130)
InterruptExitCode == 130

NoReturn == [returned |-> FALSE, success |-> FALSE, count |-> 0, message |-> ""]
NoFrame == [sel |-> <<>>, depth |-> 0]
NoPost == [rendered |-> FALSE, len |-> 0, entries |-> <<>>, button |-> FALSE]
NoExit == "none"
NoCall == [fn |-> "none"]
EmptyResults == [c \in {} |-> 0]

Slug == CITIES[cityIdx].slug

\* vacancy_ids = [v['id'] for v in vacancies]
Ids(vs) == {vs[k].id : k \in DOMAIN vs}
IdSeq(vs) == [k \in DOMAIN vs |-> vs[k].id]

\* Outcome of a city in this run, from what publish_city_vacancies returned
Outcome(c) ==
    IF ~outcome[c].returned THEN "PENDING"
    ELSE IF ~outcome[c].success THEN "FAILED"
    ELSE IF outcome[c].count = 0 THEN "SKIPPED"
    ELSE "MARKED"

\* publish_city_vacancies returns ret: the body of main_publisher's loop
ReturnCity(ret) ==
    /\ outcome' = [outcome EXCEPT ![Slug] = ret]
    /\ results' = [c \in DOMAIN results \cup {Slug} |->
                      IF c = Slug THEN ret.count ELSE results[c]]
    /\ all_success' = AllSuccessAfter(all_success, ret.success)
    /\ pc' = NextPc(cityIdx, ret.success)
    /\ cityIdx' = cityIdx + 1
    /\ vacancies' = <<>>
    /\ frame' = NoFrame
    /\ post' = NoPost

-----------------------------------------------------------------------------
(* Initial state: the scraper has stored the catalogue on day 0 *)

Idle ==
    /\ pc = "idle"
    /\ cityIdx = 1
    /\ vacancies = <<>>
    /\ frame = NoFrame
    /\ post = NoPost
    /\ results = EmptyResults
    /\ all_success = TRUE
    /\ outcome = [c \in CitySlugs |-> NoReturn]
    /\ faults = [c \in CitySlugs |-> {}]
    /\ gateway = {}
    /\ marks = {}
    /\ delivered = {}
    /\ exit_code = NoExit
    /\ response = <<>>

Init ==
    /\ \E late \in SUBSET LateAds : \E bare \in SUBSET (LateAds \ late) :
          store = [a \in Ads |-> IF a \in late THEN NoRow
                                 ELSE IF a \in bare THEN InsertedRowFallback(a, 0)
                                 ELSE InsertedRow(a, 0)]
    /\ now = 0
    /\ upserts = 0
    /\ run = 0
    /\ startup = "none"
    /\ env = RequiredEnv
    /\ call = NoCall
    /\ Idle

-----------------------------------------------------------------------------
(* Scraper: upsert_vacancy, and the clock *)

UpsertInsert(a) ==
    /\ upserts < MaxUpserts
    /\ ~store[a].present
    /\ store' = [store EXCEPT ![a] = InsertedRow(a, now)]
    /\ upserts' = upserts + 1
    /\ UNCHANGED <<now, pc, run, startup, cityIdx, vacancies, frame, post, results,
                   all_success, outcome, faults, gateway, marks, delivered, exit_code,
                   env, response, call>>

UpsertUpdate(a) ==
    /\ upserts < MaxUpserts
    /\ store[a].present
    /\ store' = [store EXCEPT ![a] = UpdatedRow(a, store[a], now)]
    /\ upserts' = upserts + 1
    /\ UNCHANGED <<now, pc, run, startup, cityIdx, vacancies, frame, post, results,
                   all_success, outcome, faults, gateway, marks, delivered, exit_code,
                   env, response, call>>

\* the job board's ad makes format_vacancy take its except branch; the row
\* is inserted
UpsertInsertFallback(a) ==
    /\ upserts < MaxUpserts
    /\ ~store[a].present
    /\ store' = [store EXCEPT ![a] = InsertedRowFallback(a, now)]
    /\ upserts' = upserts + 1
    /\ UNCHANGED <<now, pc, run, startup, cityIdx, vacancies, frame, post, results,
                   all_success, outcome, faults, gateway, marks, delivered, exit_code,
                   env, response, call>>

\* the same ad for a stored listing: duplicate key, UPDATE
UpsertUpdateFallback(a) ==
    /\ upserts < MaxUpserts
    /\ store[a].present
    /\ store' = [store EXCEPT ![a] = UpdatedRowFallback(a, store[a], now)]
    /\ upserts' = upserts + 1
    /\ UNCHANGED <<now, pc, run, startup, cityIdx, vacancies, frame, post, results,
                   all_success, outcome, faults, gateway, marks, delivered, exit_code,
                   env, response, call>>

\* the INSERT fails with another error: "error" is returned, nothing is written
UpsertError(a) ==
    /\ upserts < MaxUpserts
    /\ upserts' = upserts + 1
    /\ UNCHANGED <<store, now, pc, run, startup, cityIdx, vacancies, frame, post, results,
                   all_success, outcome, faults, gateway, marks, delivered, exit_code,
                   env, response, call>>

\* the clock is in days and a run takes seconds: days pass between runs
Tick ==
    /\ pc = "idle"
    /\ now + max_parsed_age_days + 1 <= MaxDay
    /\ now' = now + max_parsed_age_days + 1
    /\ UNCHANGED <<store, upserts, pc, run, startup, cityIdx, vacancies, frame, post, results,
                   all_success, outcome, faults, gateway, marks, delivered, exit_code,
                   env, response, call>>

-----------------------------------------------------------------------------
(* Publisher: main_publisher up to the city loop *)

NewRun ==
    /\ pc = "idle"
    /\ run < MaxRuns
    /\ run' = run + 1
    /\ outcome' = [c \in CitySlugs |-> NoReturn]
    /\ faults' = [c \in CitySlugs |-> {}]
    /\ gateway' = {}
    /\ marks' = {}
    /\ results' = EmptyResults
    /\ cityIdx' = 1
    /\ response' = <<>>
    /\ UNCHANGED <<store, now, upserts, vacancies, frame, post, delivered, call>>

\* a required environment value is absent: return False, {}
StartAbortConfig ==
    /\ NewRun
    /\ startup' = "config"
    /\ \E e \in SUBSET RequiredEnv : ~ConfigOk(e) /\ env' = e
    /\ all_success' = FALSE
    /\ exit_code' = ExitCode(FALSE)
    /\ pc' = "idle"

\* should_publish_now() is false: return True, {}
StartNotScheduled ==
    /\ NewRun
    /\ startup' = "not_scheduled"
    /\ \E e \in SUBSET RequiredEnv : ConfigOk(e) /\ env' = e
    /\ all_success' = TRUE
    /\ exit_code' = ExitCode(TRUE)
    /\ pc' = "idle"

\* supabase is not installed or the test query raises: return False, {}
StartConnectFail ==
    /\ NewRun
    /\ startup' = "connect"
    /\ \E e \in SUBSET RequiredEnv : ConfigOk(e) /\ env' = e
    /\ all_success' = FALSE
    /\ exit_code' = ExitCode(FALSE)
    /\ pc' = "idle"

\* the run reaches the city loop
StartLoop ==
    /\ NewRun
    /\ startup' = "loop"
    /\ \E e \in SUBSET RequiredEnv : ConfigOk(e) /\ env' = e
    /\ all_success' = TRUE
    /\ exit_code' = NoExit
    /\ pc' = "city"

-----------------------------------------------------------------------------
(* Publisher: publish_city_vacancies, one city *)

\* query.execute() raises: get_vacancies_for_publication returns [] and the
\* city is reported as one without new vacancies
FetchRaise ==
    /\ pc = "city"
    /\ faults' = [faults EXCEPT ![Slug] = @ \cup {"query"}]
    /\ SelectionOnQueryError = <<>>
    /\ response' = <<>>
    /\ ReturnCity(ReturnNoVacancies)
    /\ UNCHANGED <<store, now, upserts, run, startup, gateway, marks, delivered, exit_code,
                   env, call>>

\* the selection is empty: return True, ..., 0
FetchSkip ==
    /\ pc = "city"
    /\ \E data \in Responses(store, now, Slug, vacancies_per_post) :
          /\ SelectFrom(data, vacancies_per_post, max_vacancies_per_company) = <<>>
          /\ response' = data
    /\ ReturnCity(ReturnNoVacancies)
    /\ UNCHANGED <<store, now, upserts, run, startup, faults, gateway, marks, delivered,
                   exit_code, env, call>>

\* a non-empty selection: format_post_with_vacancies is called on it
FetchSelect ==
    /\ pc = "city"
    /\ \E data \in Responses(store, now, Slug, vacancies_per_post) :
          LET sel == SelectFrom(data, vacancies_per_post, max_vacancies_per_company)
          IN  /\ sel /= <<>>
              /\ response' = data
              /\ vacancies' = sel
              /\ frame' = [sel |-> sel, depth |-> 1]
    /\ pc' = "render"
    /\ UNCHANGED <<store, now, upserts, run, startup, cityIdx, post, results, all_success,
                   outcome, faults, gateway, marks, delivered, exit_code, env, call>>

FrameLen == PostLen(frame.sel, CITIES[cityIdx].name_len)

\* the text is too long: return format_post_with_vacancies(vacancies[:5], city_name)
RenderRecurse ==
    /\ pc = "render"
    /\ frame.sel /= <<>>
    /\ NeedsTruncation(FrameLen)
    /\ frame.depth < MaxDepth
    /\ frame' = [sel |-> Truncated(frame.sel), depth |-> frame.depth + 1]
    /\ UNCHANGED <<store, now, upserts, pc, run, startup, cityIdx, vacancies, post, results,
                   all_success, outcome, faults, gateway, marks, delivered, exit_code,
                   env, response, call>>

\* the recursion reaches the interpreter's limit: RecursionError, caught by the
\* "except Exception" of publish_city_vacancies
RenderOverflow ==
    /\ pc = "render"
    /\ frame.sel /= <<>>
    /\ NeedsTruncation(FrameLen)
    /\ frame.depth >= MaxDepth
    /\ faults' = [faults EXCEPT ![Slug] = @ \cup {"recursion"}]
    /\ ReturnCity(ReturnCritical)
    /\ UNCHANGED <<store, now, upserts, run, startup, gateway, marks, delivered, exit_code,
                   env, response, call>>

\* return post_text, referral_link
RenderReturn ==
    /\ pc = "render"
    /\ frame.sel /= <<>>
    /\ ~NeedsTruncation(FrameLen)
    /\ post' = [rendered |-> TRUE, len |-> FrameLen, entries |-> IdSeq(frame.sel),
                button |-> referral_link_len > 0]
    /\ frame' = NoFrame
    /\ pc' = "send"
    /\ UNCHANGED <<store, now, upserts, run, startup, cityIdx, vacancies, results, all_success,
                   outcome, faults, gateway, marks, delivered, exit_code,
                   env, response, call>>

\* publish_to_telegram(bot_token, channel, post_text, button_url) with result ok
Send(ok) ==
    /\ pc = "send"
    /\ gateway' = gateway \cup {[city |-> Slug, len |-> post.len,
                                 entries |-> post.entries, ok |-> ok]}
    /\ delivered' = IF ok
                    THEN delivered \cup {[run |-> run, city |-> Slug, entries |-> post.entries]}
                    ELSE delivered
    /\ faults' = [faults EXCEPT ![Slug] = IF ok THEN @ ELSE @ \cup {"send"}]
    /\ IF AfterSend(ok) = "mark"
       THEN /\ pc' = "mark"
            /\ UNCHANGED <<cityIdx, vacancies, frame, post, results, all_success, outcome>>
       ELSE ReturnCity(ReturnSendError)
    /\ UNCHANGED <<store, now, upserts, run, startup, marks, exit_code,
                   env, response, call>>

SendOk ==
    /\ Send(TRUE)

SendFail ==
    /\ Send(FALSE)

\* mark_vacancies_as_posted(client, [v['id'] for v in vacancies], channel): the
\* update is applied and True returned, or it raises and False is returned
MarkOk ==
    /\ pc = "mark"
    /\ store' = MarkedStore(store, Ids(vacancies), CITIES[cityIdx].channel, now)
    /\ marks' = marks \cup {[city |-> Slug, ids |-> Ids(vacancies), ok |-> TRUE]}
    /\ ReturnCity(ReturnAfterMark(TRUE, Len(vacancies)))
    /\ UNCHANGED <<now, upserts, run, startup, faults, gateway, delivered, exit_code,
                   env, response, call>>

MarkFail ==
    /\ pc = "mark"
    /\ marks' = marks \cup {[city |-> Slug, ids |-> Ids(vacancies), ok |-> FALSE]}
    /\ faults' = [faults EXCEPT ![Slug] = @ \cup {"mark"}]
    /\ ReturnCity(ReturnAfterMark(FALSE, Len(vacancies)))
    /\ UNCHANGED <<store, now, upserts, run, startup, gateway, delivered, exit_code,
                   env, response, call>>

\* return process_success, results; sys.exit
Finish ==
    /\ pc = "finish"
    /\ exit_code' = ExitCode(all_success)
    /\ pc' = "idle"
    /\ UNCHANGED <<store, now, upserts, run, startup, cityIdx, vacancies, frame, post, results,
                   all_success, outcome, faults, gateway, marks, delivered, env,
                   response, call>>

\* KeyboardInterrupt before the city loop (while main_publisher reads the
\* environment, asks should_publish_now or connects to the store): nothing
\* was queried, sent or marked, main_publisher returns nothing and the entry
\* point exits with 130
InterruptPreamble ==
    /\ NewRun
    /\ startup' = "interrupted"
    /\ \E e \in SUBSET RequiredEnv : env' = e
    /\ all_success' = TRUE
    /\ exit_code' = InterruptExitCode
    /\ pc' = "idle"

\* KeyboardInterrupt while main_publisher is in the city loop (in a store or
\* gateway call, or in time.sleep between two cities): it is not an Exception,
\* so no handler of publish_city_vacancies or main_publisher catches it; the
\* entry point exits with 130, the city in progress and the cities after it
\* never return, main_publisher returns nothing. The process is gone: its
\* locals and what its cities returned go with it, the rows it wrote and the
\* messages it delivered stay
InterruptLoop ==
    /\ pc \in {"city", "render", "send", "mark", "finish"}
    /\ exit_code' = InterruptExitCode
    /\ startup' = "interrupted"
    /\ pc' = "idle"
    /\ vacancies' = <<>>
    /\ frame' = NoFrame
    /\ post' = NoPost
    /\ response' = <<>>
    /\ cityIdx' = 1
    /\ results' = EmptyResults
    /\ all_success' = TRUE
    /\ outcome' = [c \in CitySlugs |-> NoReturn]
    /\ faults' = [c \in CitySlugs |-> {}]
    /\ gateway' = {}
    /\ marks' = {}
    /\ UNCHANGED <<store, now, upserts, run, delivered, env, call>>

\* except KeyboardInterrupt around main_publisher(): wherever the interrupt
\* arrives
Interrupt ==
    \/ InterruptPreamble
    \/ InterruptLoop

-----------------------------------------------------------------------------
(* Specification of the pipeline: scraper, clock and publisher runs *)

Next ==
    \/ \E a \in Listed : UpsertInsert(a)
    \/ \E a \in Listed : UpsertUpdate(a)
    \/ \E a \in Listed : UpsertInsertFallback(a)
    \/ \E a \in Listed : UpsertUpdateFallback(a)
    \/ \E a \in Listed : UpsertError(a)
    \/ Tick
    \/ StartAbortConfig
    \/ StartNotScheduled
    \/ StartConnectFail
    \/ StartLoop
    \/ FetchRaise
    \/ FetchSkip
    \/ FetchSelect
    \/ RenderRecurse
    \/ RenderOverflow
    \/ RenderReturn
    \/ SendOk
    \/ SendFail
    \/ MarkOk
    \/ MarkFail
    \/ Finish
    \/ Interrupt

Spec == Init /\ [][Next]_vars

\* the runs of the publisher one after the other when the channel accepts
\* every message, the store applies every mark update it gets and the scraper
\* does not run; a run may be interrupted at any step
NextSequential ==
    \/ Tick
    \/ StartAbortConfig
    \/ StartNotScheduled
    \/ StartConnectFail
    \/ StartLoop
    \/ FetchRaise
    \/ FetchSkip
    \/ FetchSelect
    \/ RenderRecurse
    \/ RenderOverflow
    \/ RenderReturn
    \/ SendOk
    \/ MarkOk
    \/ Finish
    \/ Interrupt

SpecSequential == Init /\ [][NextSequential]_vars

-----------------------------------------------------------------------------
(* Specification of the renderer on its own: publish_city_vacancies has a   *)
(* selection of up to MaxSel rows of three shapes (short, long and oversized *)
(* title) for some city, renders it and sends it.                           *)

RenderShapes == {Catalogue[8], Catalogue[1], Catalogue[7]}

InitRender ==
    /\ \E n \in 0..MaxSel : \E f \in [1..n -> RenderShapes] : \E c \in DOMAIN CITIES :
          /\ vacancies = [i \in 1..n |-> [f[i] EXCEPT !.id = i]]
          /\ frame = [sel |-> vacancies, depth |-> 1]
          /\ cityIdx = c
          /\ outcome = [d \in CitySlugs |->
                           IF CityOf(d) < c THEN ReturnNoVacancies ELSE NoReturn]
          /\ results = [d \in {CITIES[i].slug : i \in 1..(c - 1)} |-> 0]
    /\ pc = "render"
    /\ store = [a \in Ads |-> InsertedRow(a, 0)]
    /\ now = 0
    /\ upserts = 0
    /\ run = 1
    /\ startup = "loop"
    /\ post = NoPost
    /\ all_success = TRUE
    /\ faults = [d \in CitySlugs |-> {}]
    /\ gateway = {}
    /\ marks = {}
    /\ delivered = {}
    /\ exit_code = NoExit
    /\ env = RequiredEnv
    /\ response = <<>>
    /\ call = NoCall

\* if not vacancies: return "Нет новых вакансий для публикации", None
RenderEmpty ==
    /\ pc = "render"
    /\ frame.sel = <<>>
    /\ post' = [rendered |-> TRUE, len |-> EmptyPostLen, entries |-> <<>>, button |-> FALSE]
    /\ frame' = NoFrame
    /\ pc' = "rendered"
    /\ UNCHANGED <<store, now, upserts, run, startup, cityIdx, vacancies, results,
                   all_success, outcome, faults, gateway, marks, delivered, exit_code,
                   env, response, call>>

NextRender ==
    \/ RenderEmpty
    \/ RenderRecurse
    \/ RenderOverflow
    \/ RenderReturn
    \/ SendOk
    \/ SendFail

SpecRender == InitRender /\ [][NextRender]_vars

-----------------------------------------------------------------------------
(* Specification of the selector on its own: get_vacancies_for_publication  *)
(* is called with some target_count and max_per_company on a table whose    *)
(* eligible rows are a set of up to MaxData rows of SelectRows.             *)

SelectRows ==
    { Ad(101, "msk", Txt("A", 5), Txt("t1", 20), None, Some(90000), Some("RUR"), 0),
      Ad(102, "msk", Txt("A", 5), Txt("t2", 70), None, Some(80000), Some("RUR"), 0),
      Ad(103, "msk", Txt("A", 5), Txt("t2", 80), None, Some(70000), Some("RUR"), 0),
      Ad(104, "msk", Txt("A", 5), Txt("t3", 20), None, Some(60000), Some("RUR"), 0),
      Ad(105, "msk", Txt("A", 5), Txt("t4", 20), None, Some(55000), Some("RUR"), 0),
      Ad(106, "msk", Txt("B", 5), Txt("t5", 20), None, Some(50000), Some("RUR"), 0),
      Ad(107, "msk", Txt("  ", 2), Txt("t6", 20), None, Some(40000), Some("RUR"), 0),
      Ad(108, "msk", Txt("B", 5), Txt("t7", 20), Some(30000), None, Some("RUR"), 0),
      Ad(109, "msk", Null, Txt("t8", 20), None, Some(20000), Some("RUR"), 0),
      Ad(110, "msk", Txt(" A", 6), Txt("t9", 20), None, Some(54000), Some("RUR"), 0),
      Ad(111, "msk", Txt("C", 5), Txt("t1_z", 20), None, Some(53000), Some("RUR"), 0),
      Ad(112, "msk", Txt("Cxxxx_t1", 8), Txt("z", 17), None, Some(52000), Some("RUR"), 0) }

InitSelect ==
    /\ \E S \in SUBSET SelectRows : \E t \in 0..MaxTarget : \E m \in 0..MaxCap :
          /\ Cardinality(S) <= MaxData
          /\ response \in {Limited(r, t) : r \in OrderedRows(S)}
          /\ call = [fn |-> "select", target_count |-> t, max_per_company |-> m,
                     eligible |-> Cardinality(S), first |-> 0, raised |-> FALSE]
    /\ pc = "select"
    /\ store = [a \in Ads |-> InsertedRow(a, 0)]
    /\ now = 0
    /\ upserts = 0
    /\ run = 0
    /\ startup = "none"
    /\ env = RequiredEnv
    /\ cityIdx = 1
    /\ vacancies = <<>>
    /\ frame = NoFrame
    /\ post = NoPost
    /\ results = EmptyResults
    /\ all_success = TRUE
    /\ outcome = [c \in CitySlugs |-> NoReturn]
    /\ faults = [c \in CitySlugs |-> {}]
    /\ gateway = {}
    /\ marks = {}
    /\ delivered = {}
    /\ exit_code = NoExit

\* if not response.data: return []
SelectEmpty ==
    /\ pc = "select"
    /\ response = <<>>
    /\ pc' = "selected"
    /\ UNCHANGED <<store, now, upserts, run, startup, cityIdx, vacancies, frame, post,
                   results, all_success, outcome, faults, gateway, marks, delivered,
                   exit_code, env, response, call>>

\* query.execute() raises: except Exception: return []
SelectRaise ==
    /\ pc = "select"
    /\ response' = <<>>
    /\ vacancies' = SelectionOnQueryError
    /\ call' = [call EXCEPT !.raised = TRUE]
    /\ pc' = "selected"
    /\ UNCHANGED <<store, now, upserts, run, startup, cityIdx, frame, post,
                   results, all_success, outcome, faults, gateway, marks, delivered,
                   exit_code, env>>

\* the first loop over response.data
SelectPass1 ==
    /\ pc = "select"
    /\ response /= <<>>
    /\ vacancies' = Pass1(response, 1, <<>>, call.target_count, call.max_per_company)
    /\ call' = [call EXCEPT !.first = Len(vacancies')]
    /\ pc' = "pass1"
    /\ UNCHANGED <<store, now, upserts, run, startup, cityIdx, frame, post,
                   results, all_success, outcome, faults, gateway, marks, delivered,
                   exit_code, env, response>>

\* the second loop, over response.data[len(filtered_vacancies):]
SelectPass2 ==
    /\ pc = "pass1"
    /\ NeedsPass2(response, vacancies, call.target_count)
    /\ vacancies' = Pass2(response, Len(vacancies) + 1, vacancies, call.target_count)
    /\ pc' = "selected"
    /\ UNCHANGED <<store, now, upserts, run, startup, cityIdx, frame, post,
                   results, all_success, outcome, faults, gateway, marks, delivered,
                   exit_code, env, response, call>>

\* return filtered_vacancies without a second loop
SelectReturn ==
    /\ pc = "pass1"
    /\ ~NeedsPass2(response, vacancies, call.target_count)
    /\ pc' = "selected"
    /\ UNCHANGED <<store, now, upserts, run, startup, cityIdx, vacancies, frame, post,
                   results, all_success, outcome, faults, gateway, marks, delivered,
                   exit_code, env, response, call>>

NextSelect ==
    \/ SelectEmpty
    \/ SelectRaise
    \/ SelectPass1
    \/ SelectPass2
    \/ SelectReturn

SpecSelect == InitSelect /\ [][NextSelect]_vars

\* the same function called with any target_count and with a response the
\* store did not cut to target_count * 3 rows
InitSelectAny ==
    /\ \E S \in SUBSET SelectRows : \E t \in -1..MaxTarget : \E m \in 0..MaxCap :
          /\ Cardinality(S) <= MaxData
          /\ response \in OrderedRows(S)
          /\ call = [fn |-> "select", target_count |-> t, max_per_company |-> m,
                     eligible |-> Cardinality(S), first |-> 0, raised |-> FALSE]
    /\ pc = "select"
    /\ store = [a \in Ads |-> InsertedRow(a, 0)]
    /\ now = 0
    /\ upserts = 0
    /\ run = 0
    /\ startup = "none"
    /\ env = RequiredEnv
    /\ cityIdx = 1
    /\ vacancies = <<>>
    /\ frame = NoFrame
    /\ post = NoPost
    /\ results = EmptyResults
    /\ all_success = TRUE
    /\ outcome = [c \in CitySlugs |-> NoReturn]
    /\ faults = [c \in CitySlugs |-> {}]
    /\ gateway = {}
    /\ marks = {}
    /\ delivered = {}
    /\ exit_code = NoExit

SpecSelectAny == InitSelectAny /\ [][NextSelect]_vars

-----------------------------------------------------------------------------
(* Specification of the mark update on its own: mark_vacancies_as_posted is *)
(* called up to MaxMarkCalls times with the same id list and channel on a   *)
(* table in which some of the listed rows exist.                            *)

MarkAds == {8, 9, 10}

\* variant: the update is issued for an empty id list as well
MarkUpdateIssuedAlways(vacancy_ids) == TRUE

\* if not vacancy_ids: return True -- otherwise the update request is issued
MarkUpdateIssued(vacancy_ids) == vacancy_ids /= {}

InitMark ==
    /\ \E absent \in SUBSET MarkAds : \E ids \in SUBSET MarkAds :
       \E c \in {CityOf("nsk"), CityOf("msk")} :
          /\ store = [a \in Ads |-> IF a \in absent THEN NoRow ELSE InsertedRow(a, 0)]
          /\ call = [fn |-> "mark", vacancy_ids |-> ids,
                     channel_id |-> CITIES[c].channel,
                     calls |-> 0, succeeded |-> 0, updates |-> 0, result |-> None]
    /\ now = 0
    /\ upserts = 0
    /\ run = 0
    /\ startup = "none"
    /\ env = RequiredEnv
    /\ Idle

\* if not vacancy_ids: return True
MarkCallEmpty ==
    /\ call.fn = "mark"
    /\ call.calls < MaxMarkCalls
    /\ ~MarkUpdateIssued(call.vacancy_ids)
    /\ call' = [call EXCEPT !.calls = @ + 1, !.succeeded = @ + 1, !.result = Some(TRUE)]
    /\ UNCHANGED <<store, now, upserts, pc, run, startup, cityIdx, vacancies, frame, post,
                   results, all_success, outcome, faults, gateway, marks, delivered,
                   exit_code, env, response>>

\* the update is executed: return True
MarkCallOk ==
    /\ call.fn = "mark"
    /\ call.calls < MaxMarkCalls
    /\ MarkUpdateIssued(call.vacancy_ids)
    /\ store' = MarkedStore(store, call.vacancy_ids, call.channel_id, now)
    /\ call' = [call EXCEPT !.calls = @ + 1, !.succeeded = @ + 1, !.updates = @ + 1,
                            !.result = Some(TRUE)]
    /\ UNCHANGED <<now, upserts, pc, run, startup, cityIdx, vacancies, frame, post,
                   results, all_success, outcome, faults, gateway, marks, delivered,
                   exit_code, env, response>>

\* the update raises: return False
MarkCallRaise ==
    /\ call.fn = "mark"
    /\ call.calls < MaxMarkCalls
    /\ MarkUpdateIssued(call.vacancy_ids)
    /\ call' = [call EXCEPT !.calls = @ + 1, !.updates = @ + 1, !.result = Some(FALSE)]
    /\ UNCHANGED <<store, now, upserts, pc, run, startup, cityIdx, vacancies, frame, post,
                   results, all_success, outcome, faults, gateway, marks, delivered,
                   exit_code, env, response>>

NextMark ==
    \/ MarkCallEmpty
    \/ MarkCallOk
    \/ MarkCallRaise
    \/ Tick

SpecMark == InitMark /\ [][NextMark]_vars

-----------------------------------------------------------------------------
(* Specification of the schedule gate on its own: should_publish_now is     *)
(* called at some Moscow time of day, in seconds since 00:00, with some     *)
(* schedule table (minutes since 00:00), with or without GITHUB_ACTIONS.    *)

Abs(x) == IF x < 0 THEN -x ELSE x

\* PUBLISH_CONFIG["publication"]["post_times_msk"]: 09:00, 13:00, 19:00, 21:00
post_times_msk == <<540, 780, 1140, 1260>>

\* schedule tables the gate is called with: the configured one and tables
\* with an entry at 00:00, 00:05 and 23:55
GateSchedules == {post_times_msk, <<0>>, <<5>>, <<1435>>}

\* seconds of the minute at which the gate is called
GateSeconds == {0, 30}

\* scheduled_dt = now_msk.replace(hour=.., minute=.., second=0), on the date
\* of now_msk; time_diff = abs((now_msk - scheduled_dt).total_seconds() / 60);
\* if time_diff <= 10: return True
WithinWindow(now_s, scheduled) == Abs(now_s - scheduled * 60) <= 10 * 60

\* the value should_publish_now returns
should_publish_now(ci, now_s, post_times) ==
    IF ci THEN TRUE
    ELSE \E k \in DOMAIN post_times : WithinWindow(now_s, post_times[k])

InitGate ==
    /\ \E m \in 0..(24 * 60 - 1) : \E sec \in GateSeconds :
       \E t \in GateSchedules : \E ci \in BOOLEAN :
          call = [fn |-> "gate", ci |-> ci, now_s |-> m * 60 + sec,
                  post_times |-> t, result |-> None]
    /\ store = [a \in Ads |-> InsertedRow(a, 0)]
    /\ now = 0
    /\ upserts = 0
    /\ run = 0
    /\ startup = "none"
    /\ env = RequiredEnv
    /\ Idle

\* if "GITHUB_ACTIONS" in os.environ: return True
GateCI ==
    /\ call.fn = "gate"
    /\ call.result = None
    /\ call.ci
    /\ call' = [call EXCEPT !.result = Some(should_publish_now(TRUE, call.now_s, call.post_times))]
    /\ UNCHANGED <<store, now, upserts, pc, run, startup, cityIdx, vacancies, frame, post,
                   results, all_success, outcome, faults, gateway, marks, delivered,
                   exit_code, env, response>>

\* the loop over post_times
GateSchedule ==
    /\ call.fn = "gate"
    /\ call.result = None
    /\ ~call.ci
    /\ call' = [call EXCEPT !.result = Some(should_publish_now(FALSE, call.now_s, call.post_times))]
    /\ UNCHANGED <<store, now, upserts, pc, run, startup, cityIdx, vacancies, frame, post,
                   results, all_success, outcome, faults, gateway, marks, delivered,
                   exit_code, env, response>>

NextGate ==
    \/ GateCI
    \/ GateSchedule

SpecGate == InitGate /\ [][NextGate]_vars

-----------------------------------------------------------------------------
(* Specification of two publisher runs that overlap on one city: each run   *)
(* is publish_city_vacancies for that city, at its own position; the store  *)
(* and the channel are shared. The city's posts fit one message.            *)

OverlapRuns == {1, 2}

OverlapCity == CityOf("nsk")

OverlapAds == {a \in Ads : Catalogue[a].city_slug = CITIES[OverlapCity].slug}

\* variant: rows held by another run are skipped
VisibleRowsSkipHeld(data, held) ==
    SelectSeq(data, LAMBDA v : v.id \notin held)

\* the rows of response.data a run gets to work on, given the ids other runs
\* hold between their fetch and their mark: the stored row has no owner column
\* and the query takes no lock, so all rows are visible
VisibleRows(data, held) ==
    data

\* ids held by the runs other than r that have fetched and not yet returned
HeldByOthers(r) ==
    UNION {Ids(call.runs[q].vacancies) :
              q \in {x \in OverlapRuns \ {r} : call.runs[x].pc \in {"send", "mark"}}}

InitOverlap ==
    /\ \E absent \in SUBSET OverlapAds : \E posted \in SUBSET (OverlapAds \ absent) :
          store = [a \in Ads |->
                     IF a \in absent THEN NoRow
                     ELSE IF a \in posted
                          THEN MarkedStore([b \in Ads |-> InsertedRow(b, 0)], {a},
                                           CITIES[OverlapCity].channel, 0)[a]
                          ELSE InsertedRow(a, 0)]
    /\ call = [fn |-> "overlap", marked |-> 0,
               runs |-> [r \in OverlapRuns |->
                           [pc |-> "city", queried |-> "no", vacancies |-> <<>>,
                            fetched_after |-> 0, ret |-> NoReturn]]]
    /\ now = 0
    /\ upserts = 0
    /\ run = 0
    /\ startup = "none"
    /\ env = RequiredEnv
    /\ Idle

OverlapFrame ==
    UNCHANGED <<now, upserts, pc, run, startup, cityIdx, vacancies, frame, post, results,
                all_success, outcome, faults, gateway, marks, exit_code, env, response>>

\* get_vacancies_for_publication returns listings
OverlapFetch(r) ==
    /\ call.fn = "overlap"
    /\ call.runs[r].pc = "city"
    /\ \E data \in Responses(store, now, CITIES[OverlapCity].slug, vacancies_per_post) :
          LET sel == SelectFrom(VisibleRows(data, HeldByOthers(r)), vacancies_per_post,
                                max_vacancies_per_company)
          IN  /\ sel /= <<>>
              /\ ~NeedsTruncation(PostLen(sel, CITIES[OverlapCity].name_len))
              /\ call' = [call EXCEPT !.runs[r] =
                             [pc |-> "send", queried |-> "ok", vacancies |-> sel,
                              fetched_after |-> call.marked, ret |-> NoReturn]]
    /\ UNCHANGED <<store, delivered>>
    /\ OverlapFrame

\* if not vacancies: return True, ..., 0
OverlapSkip(r) ==
    /\ call.fn = "overlap"
    /\ call.runs[r].pc = "city"
    /\ \E data \in Responses(store, now, CITIES[OverlapCity].slug, vacancies_per_post) :
          /\ SelectFrom(VisibleRows(data, HeldByOthers(r)), vacancies_per_post,
                        max_vacancies_per_company) = <<>>
          /\ call' = [call EXCEPT !.runs[r] =
                         [pc |-> "returned", queried |-> "ok", vacancies |-> <<>>,
                          fetched_after |-> call.marked, ret |-> ReturnNoVacancies]]
    /\ UNCHANGED <<store, delivered>>
    /\ OverlapFrame

\* the query raises: get_vacancies_for_publication returns [], the city is
\* reported as one without listings
OverlapFetchRaise(r) ==
    /\ call.fn = "overlap"
    /\ call.runs[r].pc = "city"
    /\ call' = [call EXCEPT !.runs[r] =
                   [pc |-> "returned", queried |-> "error",
                    vacancies |-> SelectionOnQueryError,
                    fetched_after |-> call.marked, ret |-> ReturnNoVacancies]]
    /\ UNCHANGED <<store, delivered>>
    /\ OverlapFrame

\* format_post_with_vacancies, publish_to_telegram
OverlapSend(r, ok) ==
    /\ call.fn = "overlap"
    /\ call.runs[r].pc = "send"
    /\ delivered' = IF ok
                    THEN delivered \cup {[run |-> r, city |-> CITIES[OverlapCity].slug,
                                          entries |-> IdSeq(call.runs[r].vacancies)]}
                    ELSE delivered
    /\ call' = IF AfterSend(ok) = "mark"
               THEN [call EXCEPT !.runs[r].pc = "mark"]
               ELSE [call EXCEPT !.runs[r].pc = "returned",
                                 !.runs[r].ret = ReturnSendError]
    /\ UNCHANGED store
    /\ OverlapFrame

OverlapSendOk ==
    \E r \in OverlapRuns : OverlapSend(r, TRUE)

OverlapSendFail ==
    \E r \in OverlapRuns : OverlapSend(r, FALSE)

\* mark_vacancies_as_posted applies the update and returns True
OverlapMarkOk(r) ==
    /\ call.fn = "overlap"
    /\ call.runs[r].pc = "mark"
    /\ store' = MarkedStore(store, Ids(call.runs[r].vacancies),
                            CITIES[OverlapCity].channel, now)
    /\ call' = [call EXCEPT !.marked = @ + 1,
                            !.runs[r].pc = "returned",
                            !.runs[r].ret = ReturnAfterMark(TRUE, Len(call.runs[r].vacancies))]
    /\ UNCHANGED delivered
    /\ OverlapFrame

\* mark_vacancies_as_posted catches the store's exception and returns False
OverlapMarkFail(r) ==
    /\ call.fn = "overlap"
    /\ call.runs[r].pc = "mark"
    /\ call' = [call EXCEPT !.runs[r].pc = "returned",
                            !.runs[r].ret = ReturnAfterMark(FALSE, Len(call.runs[r].vacancies))]
    /\ UNCHANGED <<store, delivered>>
    /\ OverlapFrame

NextOverlap ==
    \/ \E r \in OverlapRuns : OverlapFetch(r)
    \/ \E r \in OverlapRuns : OverlapSkip(r)
    \/ \E r \in OverlapRuns : OverlapFetchRaise(r)
    \/ OverlapSendOk
    \/ OverlapSendFail
    \/ \E r \in OverlapRuns : OverlapMarkOk(r)
    \/ \E r \in OverlapRuns : OverlapMarkFail(r)

SpecOverlap == InitOverlap /\ [][NextOverlap]_vars

-----------------------------------------------------------------------------
(* Specification of the scraper's paged search on its own: fetch_vacancies  *)
(* is called by main for one city; the search service answers each page.    *)

\* number of pages the search reports, data.get("pages")
FetchPages == {1, 2, 3, 25}

\* if page >= total_pages - 1 or page >= 19: break
LastPage == 19

\* answers of the service to a page request: a page of items, HTTP 400 whose
\* text mentions 2000, another HTTP error status, no answer within the timeout
FetchAnswers == {"ok", "ceiling", "status", "timeout"}

\* the answer to the request for page p
AnswerTo(p) ==
    IF p = call.fail_at THEN call.fail_kind ELSE "ok"

InitFetch ==
    /\ \E n \in FetchPages : \E f \in 0..3 : \E k \in FetchAnswers :
          call = [fn |-> "fetch", pages |-> n, fail_at |-> f, fail_kind |-> k,
                  page |-> 0, all_vacancies |-> <<>>, at |-> "loop",
                  ceiling |-> FALSE, fallback |-> FALSE]
    /\ store = [a \in Ads |-> InsertedRow(a, 0)]
    /\ now = 0
    /\ upserts = 0
    /\ run = 0
    /\ startup = "none"
    /\ env = RequiredEnv
    /\ Idle

FetchFrame ==
    UNCHANGED <<store, now, upserts, pc, run, startup, cityIdx, vacancies, frame, post,
                results, all_success, outcome, faults, gateway, marks, delivered,
                exit_code, env, response>>

\* a page arrives: all_vacancies.extend(page_vacancies), then break or page += 1
FetchPageOk ==
    /\ call.fn = "fetch"
    /\ call.at = "loop"
    /\ AnswerTo(call.page) = "ok"
    /\ call' = [call EXCEPT
                  !.all_vacancies = Append(@, call.page),
                  !.at = IF call.page >= call.pages - 1 \/ call.page >= LastPage
                         THEN "returned" ELSE "loop",
                  !.page = IF call.page >= call.pages - 1 \/ call.page >= LastPage
                           THEN @ ELSE @ + 1]
    /\ FetchFrame

\* status 400 mentioning 2000: HTTPError is raised inside the try block, whose
\* except clause for RequestException catches it; break; return all_vacancies
FetchPageCeiling ==
    /\ call.fn = "fetch"
    /\ call.at = "loop"
    /\ AnswerTo(call.page) = "ceiling"
    /\ call' = [call EXCEPT !.ceiling = TRUE, !.at = "returned"]
    /\ FetchFrame

\* raise_for_status or requests.get raises a RequestException: break; return
FetchPageError ==
    /\ call.fn = "fetch"
    /\ call.at = "loop"
    /\ AnswerTo(call.page) \in {"status", "timeout"}
    /\ call' = [call EXCEPT !.at = "returned"]
    /\ FetchFrame

\* main: the except HTTPError branch runs the per-industry search only when
\* fetch_vacancies raised; with a returned list the city's rows are that list
FetchCaller ==
    /\ call.fn = "fetch"
    /\ call.at \in {"returned", "raised"}
    /\ call' = [call EXCEPT !.fallback = (call.at = "raised" /\ call.ceiling),
                            !.at = "handled"]
    /\ FetchFrame

NextFetch ==
    \/ FetchPageOk
    \/ FetchPageCeiling
    \/ FetchPageError
    \/ FetchCaller

SpecFetch == InitFetch /\ [][NextFetch]_vars

-----------------------------------------------------------------------------
(* Properties *)

\* the last run went through the whole city loop: it was not interrupted
RunFinishedLoop == startup = "loop" /\ pc \in {"finish", "idle"}

\* C1: when the send of a city fails, the city is FAILED with count 0, no mark
\* update is issued for the city, and no listing of the rejected message is
\* touched by any mark update of the run.
C1_SendFailureMarksNothing ==
    \A c \in CitySlugs :
        "send" \in faults[c] =>
            /\ Outcome(c) = "FAILED"
            /\ outcome[c].count = 0
            /\ c \in DOMAIN results /\ results[c] = 0
            /\ \A m \in marks : m.city /= c
            /\ \A g \in gateway : \A m \in marks :
                  (g.city = c /\ ~g.ok) => Range(g.entries) \cap m.ids = {}

C1_Witness ==
    /\ RunFinishedLoop
    /\ "send" \in faults["msk"]
    /\ \A a \in 1..6 : ~store[a].is_posted
    /\ Outcome("nsk") = "MARKED"

\* C2: a run that reached the city loop and finished has attempted every
\* configured city, its results map has an entry for every city, and the entry
\* of a failed city is 0.
C2_EveryCityAttempted ==
    RunFinishedLoop =>
        /\ DOMAIN results = CitySlugs
        /\ \A c \in CitySlugs :
              /\ outcome[c].returned
              /\ results[c] = outcome[c].count
              /\ Outcome(c) = "FAILED" => results[c] = 0

C2_Witness ==
    /\ RunFinishedLoop
    /\ "send" \in faults["msk"]
    /\ "recursion" \in faults["spb"]
    /\ "mark" \in faults["nsk"]
    /\ Outcome("kzn") = "SKIPPED"

\* C3: the success flag returned by a run that reached the city loop is true
\* exactly when no city is FAILED; a skipped city counts as success.
C3_SuccessIffNoCityFailed ==
    RunFinishedLoop =>
        (all_success <=> \A c \in CitySlugs : Outcome(c) /= "FAILED")

C3_Witness ==
    /\ RunFinishedLoop
    /\ all_success
    /\ Outcome("msk") = "SKIPPED"
    /\ Outcome("nsk") = "MARKED"

\* C4: once a listing's is_posted is true, no step sets it back to false.
C4_IsPostedMonotone ==
    [][\A a \in Ads :
          (store[a].present /\ store[a].is_posted) => store'[a].is_posted]_vars

\* C5: every listing id passed to the mark update of a city is an entry of the
\* message sent to that city's channel.
C5_MarkedOnlyIfSent ==
    \A m \in marks : \A g \in gateway :
        g.city = m.city => m.ids \subseteq Range(g.entries)

\* C6: when the mark update fails after a successful send, the city is
\* successful with count equal to the selection size, and the run's success
\* flag is decided by the other cities alone.
C6_MarkFailureStillSuccess ==
    \A c \in CitySlugs :
        "mark" \in faults[c] =>
            /\ outcome[c].returned /\ outcome[c].success
            /\ \E m \in marks :
                  m.city = c /\ ~m.ok /\ outcome[c].count = Cardinality(m.ids)
            /\ \E g \in gateway : g.city = c /\ g.ok
            /\ results[c] = outcome[c].count
            /\ RunFinishedLoop =>
                  (all_success <=> \A d \in CitySlugs \ {c} : Outcome(d) /= "FAILED")

C6_Witness ==
    /\ RunFinishedLoop
    /\ "mark" \in faults["msk"]
    /\ results["msk"] = 6
    /\ all_success

\* C7: when the store query of a city raises, the city is FAILED and the run's
\* success flag is false.
C7_QueryFailureFailsCity ==
    \A c \in CitySlugs :
        "query" \in faults[c] =>
            /\ Outcome(c) = "FAILED"
            /\ RunFinishedLoop => ~all_success

\* C8: every recursive call of the size guard is on strictly fewer entries
\* than the call that made it.
C8_RecursionMakesProgress ==
    [][(pc = "render" /\ frame'.depth > frame.depth)
          => Len(frame'.sel) < Len(frame.sel)]_vars

\* C9: every text format_post_with_vacancies returns, and every text handed to
\* the messaging gateway, has at most 4096 characters.
C9_MessageWithinCeiling ==
    /\ post.rendered => post.len <= MaxMessageLen
    /\ \A g \in gateway : g.len <= MaxMessageLen

C9_Witness ==
    /\ pc = "mark"
    /\ Len(vacancies) > TruncateTo
    /\ Len(post.entries) = TruncateTo
    /\ PostLen(vacancies, CITIES[cityIdx].name_len) > MaxMessageLen
    /\ \E g \in gateway : g.len = post.len /\ g.len > 3000

\* C10: when the size guard cannot bring a city's message under the ceiling,
\* the city is FAILED with count 0, nothing is sent to its channel, none of its
\* listings is marked, and the run still processes every other city.
C10_RenderOverflowFailsCity ==
    \A c \in CitySlugs :
        "recursion" \in faults[c] =>
            /\ Outcome(c) = "FAILED"
            /\ outcome[c].count = 0
            /\ \A g \in gateway : g.city /= c
            /\ \A m \in marks : m.city /= c
            /\ RunFinishedLoop => \A d \in CitySlugs : outcome[d].returned

C10_Witness ==
    /\ RunFinishedLoop
    /\ "recursion" \in faults["spb"]
    /\ ~store[7].is_posted
    /\ Outcome("msk") = "MARKED"
    /\ Outcome("nsk") = "MARKED"

-----------------------------------------------------------------------------
(* Properties of the selector *)

\* the selector has returned
Selected == call.fn = "select" /\ pc = "selected"

\* no fetched row is skipped by the first loop
Clean(data, max_per_company) ==
    /\ \A i \in DOMAIN data : ~Blank(data[i])
    /\ \A i, j \in DOMAIN data : i /= j => TitleKey(data[i]) /= TitleKey(data[j])
    /\ \A i \in DOMAIN data : CompanyCount(data, data[i].employer) <= max_per_company

\* C11: for a pool of N eligible listings and a target count T >= 1 the
\* selection has exactly min(N, T) listings; stated for the pools the store
\* answers with in which every row has an employer and a title and no two
\* rows have the same title key, so that no row is left out as a duplicate.
C11_SizeIsMinOfPoolAndTarget ==
    (Selected /\ ~call.raised /\ call.target_count >= 1
        /\ (\A i \in DOMAIN response :
               response[i].employer /= Null /\ response[i].title /= Null)
        /\ Clean(response, Len(response))) =>
        Len(vacancies) = Min(call.eligible, call.target_count)

SalaryOrdered(vs) ==
    \A i, j \in DOMAIN vs :
        i < j =>
            /\ IsSome(vs[j].salary_to_net) => IsSome(vs[i].salary_to_net)
            /\ (IsSome(vs[i].salary_to_net) /\ IsSome(vs[j].salary_to_net)) =>
                  vs[i].salary_to_net[1] >= vs[j].salary_to_net[1]

\* C12: in the returned selection the listings with salary_to_net come before
\* those without, and the salaries of the former never increase along the
\* list, also when the second pass has added listings.
C12_SalaryDescendingNullsLast ==
    Selected => SalaryOrdered(vacancies)

\* C13: a selection holds no listing id twice, after the first pass alone and
\* after the second pass.
C13_NoIdTwice ==
    (call.fn = "select" /\ pc \in {"pass1", "selected"}) =>
        \A i, j \in DOMAIN vacancies : i /= j => vacancies[i].id /= vacancies[j].id

C13_Witness ==
    /\ Selected
    /\ 0 < call.first /\ call.first < Len(vacancies)
    /\ ~Clean(response, Len(response))
    /\ \E i \in DOMAIN response :
          i > call.first /\ response[i] \in Range(Take(vacancies, call.first))

CapHolds(vs, max_per_company) ==
    \A k \in DOMAIN vs : CompanyCount(vs, vs[k].employer) <= max_per_company

\* C16 as stated: the selection has at most max_per_company listings of any
\* one employer.
C16_AtMostCapPerEmployer ==
    Selected => CapHolds(vacancies, call.max_per_company)

\* C16, amended: the listings chosen by the first pass are at most
\* max_per_company per employer; the returned selection exceeds the cap only
\* when the first pass gave fewer than target_count and the second pass added
\* listings.
C16_CapHoldsForFirstPass ==
    /\ (call.fn = "select" /\ pc = "pass1") => CapHolds(vacancies, call.max_per_company)
    /\ Selected =>
          /\ CapHolds(Take(vacancies, call.first), call.max_per_company)
          /\ ~CapHolds(vacancies, call.max_per_company) =>
                (call.first < call.target_count /\ call.first < Len(vacancies))

C16_Witness ==
    /\ Selected
    /\ call.max_per_company = 2
    /\ call.first = 3
    /\ ~CapHolds(vacancies, call.max_per_company)

-----------------------------------------------------------------------------
(* Properties of the query, the preamble, the exit code and the mark update *)

\* C14: no listing with is_posted = true, with a currency other than the
\* configured one, or first seen before the window is in a selection; the
\* listings sent and the listings marked are listings of the selection.
C14_IneligibleNeverSelected ==
    [][/\ (pc = "city" /\ pc' = "render") =>
            \A k \in DOMAIN vacancies' :
                LET a == vacancies'[k].id
                IN  /\ store[a].present
                    /\ ~store[a].is_posted
                    /\ store[a].currency = Some(ConfigCurrency)
                    /\ store[a].created_at >= now - max_parsed_age_days
       /\ \A g \in gateway' \ gateway : Range(g.entries) \subseteq Ids(vacancies)
       /\ \A m \in marks' \ marks : m.ids \subseteq Ids(vacancies)]_vars

C14_Witness ==
    /\ pc = "mark"
    /\ Slug = "nsk"
    /\ now > 0
    /\ Ids(vacancies) = {10}
    /\ store[8].is_posted
    /\ Outcome("msk") = "SKIPPED"
    /\ ~store[1].is_posted /\ store[1].created_at < now - max_parsed_age_days

\* the query of the current city has returned its rows in this step (the run
\* goes on: it was not interrupted in the query)
Fetched ==
    /\ pc = "city"
    /\ startup' = "loop"
    /\ cityIdx' /= cityIdx
    /\ "query" \notin faults'[Slug]

\* C15 as stated: a listing of the city is offered to the selection exactly
\* when is_posted = false, its currency is the configured one and it was first
\* seen within the window.
C15_EligibleIffThreeParts ==
    [][(pc = "city" /\ (pc' = "render" \/ Fetched)) =>
          Ids(response') =
              {a \in Ads : /\ store[a].present
                           /\ Catalogue[a].city_slug = Slug
                           /\ ~store[a].is_posted
                           /\ store[a].currency = Some(ConfigCurrency)
                           /\ store[a].created_at >= now - max_parsed_age_days}]_vars

\* C15, amended: a listing of the city is offered to the selection exactly
\* when is_posted = false, its currency is the configured one, it was first
\* seen within max_parsed_age_days and published within max_vacancy_age_days,
\* and it is among the first 3 * target_count such rows in the query's order;
\* employer and title do not keep a row out of the response.
C15_EligibleIffFourParts ==
    [][(pc = "city" /\ (pc' = "render" \/ Fetched)) =>
          LET E == {a \in Ads : /\ store[a].present
                                /\ Catalogue[a].city_slug = Slug
                                /\ ~store[a].is_posted
                                /\ store[a].currency = Some(ConfigCurrency)
                                /\ store[a].created_at >= now - max_parsed_age_days
                                /\ Catalogue[a].published_at >= now - max_vacancy_age_days}
          IN  /\ Ids(response') \subseteq E
              /\ Len(response') = Min(Cardinality(E), 3 * vacancies_per_post)
              /\ Cardinality(Ids(response')) = Len(response')]_vars

C15_Witness ==
    /\ pc = "finish"
    /\ now = 0
    /\ "query" \notin faults["kzn"]
    /\ response = <<>>
    /\ store[14].present /\ ~store[14].is_posted
    /\ store[14].created_at >= now - max_parsed_age_days
    /\ Outcome("ekb") = "SKIPPED" /\ "query" \notin faults["ekb"]

\* C17: a run started with a required environment value missing stops before
\* the city loop: no city is queried, nothing is sent, nothing is marked and
\* the exit code is not 0; main_publisher returns failure with empty results,
\* unless it was interrupted before it returned.
C17_MissingConfigAborts ==
    (run > 0 /\ env /= RequiredEnv) =>
        /\ startup \in {"config", "interrupted"}
        /\ pc = "idle"
        /\ startup = "config" => ~all_success
        /\ results = EmptyResults
        /\ exit_code /= 0
        /\ \A c \in CitySlugs : ~outcome[c].returned /\ faults[c] = {}
        /\ response = <<>>
        /\ gateway = {}
        /\ marks = {}
        /\ \A d \in delivered : d.run /= run

C17_Witness ==
    /\ startup = "config"
    /\ env = {"SUPABASE_URL", "SUPABASE_KEY"}
    /\ run = 2
    /\ delivered /= {}
    /\ exit_code = 1

\* main_publisher has returned in the last run
Returned ==
    \/ startup \in {"config", "not_scheduled", "connect"}
    \/ startup = "loop" /\ pc = "idle"

\* the entry point has called sys.exit in the last run
Exited == Returned \/ startup = "interrupted"

\* C18: the exit code of an ended run is 0 exactly when main_publisher
\* returned and its success flag is true, also when no listing was published,
\* and it is not 0 when a city is FAILED; a run ended by KeyboardInterrupt
\* returns no success flag and exits with 130.
C18_ExitZeroIffSuccess ==
    Exited =>
        /\ exit_code = 0 <=> (Returned /\ all_success)
        /\ (startup = "loop" /\ \E c \in CitySlugs : Outcome(c) = "FAILED") => exit_code /= 0
        /\ (startup = "loop" /\ \A c \in CitySlugs : Outcome(c) /= "FAILED") => exit_code = 0
        /\ startup = "interrupted" => exit_code = InterruptExitCode

C18_Witness ==
    /\ startup = "loop"
    /\ pc = "idle"
    /\ exit_code = 0
    /\ \A c \in CitySlugs : Outcome(c) = "SKIPPED" /\ faults[c] = {}
    /\ DOMAIN results = CitySlugs /\ \A c \in CitySlugs : results[c] = 0

\* C19: a city whose query has no eligible listing is skipped: it returns
\* success with count 0, no message is sent and no mark update is issued.
C19_NoListingsSkipsCity ==
    [][(pc = "city" /\ startup' = "loop" /\ cityIdx' /= cityIdx
           /\ Eligible(store, now, Slug) = {}) =>
          /\ outcome'[Slug].returned
          /\ outcome'[Slug].success
          /\ outcome'[Slug].count = 0
          /\ results'[Slug] = 0
          /\ all_success' = all_success
          /\ gateway' = gateway
          /\ marks' = marks
          /\ delivered' = delivered
          /\ store' = store]_vars

C19_Witness ==
    /\ pc = "finish"
    /\ Outcome("kzn") = "SKIPPED"
    /\ faults["kzn"] = {}
    /\ response = <<>>
    /\ \A g \in gateway : g.city /= "kzn"
    /\ \A m \in marks : m.city /= "kzn"
    /\ Outcome("msk") = "FAILED"

\* C20: a successful mark_vacancies_as_posted call that follows a successful
\* call with the same ids and channel leaves is_posted true and channel_id
\* the same on the listed rows and changes nothing but posted_at and
\* updated_at.
C20_MarkIdempotent ==
    [][(call.fn = "mark" /\ call.succeeded >= 1 /\ call'.succeeded = call.succeeded + 1) =>
          \A a \in Ads :
              /\ [store'[a] EXCEPT !.posted_at = None, !.updated_at = None]
                    = [store[a] EXCEPT !.posted_at = None, !.updated_at = None]
              /\ (a \in call.vacancy_ids /\ store[a].present) =>
                    /\ store'[a].is_posted
                    /\ store'[a].channel_id = Some(call.channel_id)
              /\ a \notin call.vacancy_ids => store'[a] = store[a]]_vars

C20_Witness ==
    /\ call.fn = "mark"
    /\ call.succeeded = 2
    /\ now > 0
    /\ \E a \in call.vacancy_ids :
          store[a].present /\ store[a].is_posted /\ store[a].posted_at = Some(now)
    /\ \E a \in call.vacancy_ids : ~store[a].present

-----------------------------------------------------------------------------
(* Properties of the stored rows *)

\* C21, for posted_at: in every reachable state of the store a listing's
\* posted_at is set exactly when its is_posted is true.
C21_PostedAtIffPosted ==
    \A a \in Ads :
        store[a].present => (store[a].is_posted <=> IsSome(store[a].posted_at))

-----------------------------------------------------------------------------
(* Properties of the schedule gate *)

\* distance on the clock face between a time of day and a schedule entry
ClockDistance(now_s, scheduled) ==
    Min(Abs(now_s - scheduled * 60), 24 * 60 * 60 - Abs(now_s - scheduled * 60))

\* C22: without GITHUB_ACTIONS, should_publish_now returns true exactly when
\* the Moscow time is at most 10 minutes before or after some schedule entry,
\* also across midnight; with GITHUB_ACTIONS it returns true.
C22_TrueIffWithinTenMinutes ==
    (call.fn = "gate" /\ call.result /= None) =>
        (call.result[1] <=>
            \/ call.ci
            \/ \E k \in DOMAIN call.post_times :
                  ClockDistance(call.now_s, call.post_times[k]) <= 10 * 60)

-----------------------------------------------------------------------------
(* Properties of overlapping runs *)

\* the delivered messages that list the listing a
MessagesWith(a) == {d \in delivered : a \in Range(d.entries)}

\* C23: nothing keeps two overlapping runs on one city apart: two runs that
\* both fetch before either has marked select the same listings, and once
\* both sends have succeeded each of these listings is in two delivered
\* messages.
C23_OverlappingRunsSendTwice ==
    call.fn = "overlap" =>
        \A r, q \in OverlapRuns :
            (/\ r /= q
             /\ call.runs[r].queried = "ok" /\ call.runs[q].queried = "ok"
             /\ call.runs[r].fetched_after = 0 /\ call.runs[q].fetched_after = 0) =>
                /\ call.runs[r].vacancies = call.runs[q].vacancies
                /\ (\A x \in {r, q} : call.runs[x].pc = "mark" \/ call.runs[x].ret.count > 0) =>
                      \A a \in Ids(call.runs[r].vacancies) :
                          Cardinality(MessagesWith(a)) = 2

C23_Witness ==
    /\ call.fn = "overlap"
    /\ \A r \in OverlapRuns :
          /\ call.runs[r].fetched_after = 0
          /\ call.runs[r].pc = "returned"
          /\ call.runs[r].ret.count > 0
    /\ \E a \in OverlapAds :
          /\ a \in Ids(call.runs[1].vacancies) \cap Ids(call.runs[2].vacancies)
          /\ Cardinality(MessagesWith(a)) = 2
          /\ store[a].is_posted

-----------------------------------------------------------------------------
(* Properties of the order of steps *)

\* the sends and the mark updates issued for city c in the current run
SendsOf(c) == {g \in gateway : g.city = c}
MarksOf(c) == {m \in marks : m.city = c}

\* C24: per city and run the steps go fetch, select, render, send, mark, each
\* at most once: a send is issued only for a rendered non-empty selection, a
\* mark update only after that city's send succeeded, and a city that has
\* returned is in exactly one of MARKED (sent and mark issued), SKIPPED
\* (nothing sent) or FAILED (nothing marked).
C24_StepsInOrder ==
    /\ \A c \in CitySlugs :
          /\ Cardinality(SendsOf(c)) <= 1
          /\ Cardinality(MarksOf(c)) <= 1
          /\ \A g \in SendsOf(c) : g.entries /= <<>>
          /\ \A m \in MarksOf(c) : m.ids /= {} /\ \E g \in SendsOf(c) : g.ok
          /\ outcome[c].returned =>
                /\ Outcome(c) \in {"MARKED", "SKIPPED", "FAILED"}
                /\ Outcome(c) = "MARKED" <=> MarksOf(c) /= {}
                /\ Outcome(c) = "SKIPPED" => SendsOf(c) = {}
                /\ Outcome(c) = "FAILED" => \A g \in SendsOf(c) : ~g.ok
    /\ pc \in {"city", "render", "send", "mark"} => ~outcome[Slug].returned
    /\ pc \in {"city", "render", "send"} => SendsOf(Slug) = {} /\ MarksOf(Slug) = {}
    /\ pc \in {"render", "send", "mark"} => vacancies /= <<>>
    /\ pc = "send" => post.rendered /\ post.entries /= <<>>
    /\ pc = "mark" => MarksOf(Slug) = {} /\ \E g \in SendsOf(Slug) : g.ok

C24_Witness ==
    /\ RunFinishedLoop
    /\ \E c \in CitySlugs : Outcome(c) = "MARKED" /\ \E m \in MarksOf(c) : m.ok
    /\ \E c \in CitySlugs : Outcome(c) = "SKIPPED"
    /\ \E c \in CitySlugs : Outcome(c) = "FAILED" /\ SendsOf(c) /= {}
    /\ \E c \in CitySlugs : Outcome(c) = "FAILED" /\ SendsOf(c) = {}

-----------------------------------------------------------------------------
(* Properties of the selector for any target and any response *)

\* C25: for target_count <= 0 get_vacancies_for_publication returns the empty
\* selection, whatever rows the store returned.
C25_NonPositiveTargetSelectsNothing ==
    (Selected /\ call.target_count <= 0) => vacancies = <<>>

\* C26: the selection is shorter than target_count only if every fetched row
\* with an employer and a title has its key among the selected ones, rows the
\* first loop skipped for the cap included.
C26_ShortOnlyIfPoolExhausted ==
    (Selected /\ Len(vacancies) < call.target_count) =>
        \A k \in DOMAIN response :
            ~Blank(response[k]) => TitleKey(response[k]) \in SeenTitles(vacancies)

-----------------------------------------------------------------------------
(* Properties of the scraper's paged search *)

\* C27: when the service answers a page with HTTP 400 mentioning 2000,
\* fetch_vacancies raises to its caller, which falls back to the narrower
\* searches, instead of returning the pages collected so far.
C27_CeilingRaisesToCaller ==
    (call.fn = "fetch" /\ call.ceiling) =>
        /\ call.at /= "returned"
        /\ call.at = "handled" => call.fallback

-----------------------------------------------------------------------------
(* Properties of runs one after the other *)

\* C28 as stated: in runs that do not overlap, where every send and every
\* mark update succeeds and the scraper does not run in between, no listing is
\* in more than one delivered message.
C28_NoListingSentTwice ==
    \A a \in Ads : Cardinality(MessagesWith(a)) <= 1

\* a delivered message whose mark update was not applied and is not the step
\* its city takes next: the run was ended between the two
DeliveredUnmarked ==
    \E d \in delivered :
        /\ ~(pc = "mark" /\ d.run = run /\ d.city = Slug)
        /\ \E a \in Range(d.entries) : ~store[a].is_posted

\* C28, amended: in runs that do not overlap, where every send and every mark
\* update succeeds, the scraper does not run in between and no run is ended
\* between a delivered message and its mark update, no step puts a listing
\* into a second delivered message.
C28_NoListingSentTwiceIfMarked ==
    [][(~DeliveredUnmarked /\ C28_NoListingSentTwice) => C28_NoListingSentTwice']_vars

C28_Witness ==
    /\ run = 2
    /\ RunFinishedLoop
    /\ Outcome("nsk") = "SKIPPED"
    /\ \E d \in delivered :
          /\ d.run = 1 /\ d.city = "nsk"
          /\ \A a \in Range(d.entries) : store[a].is_posted

\* the column holds a text of at least one character
NonEmptyText(x) == x /= Null /\ x.len > 0

\* C29: for target_count >= 1 and any response of the store, the selection
\* has at most target_count listings, each with a non-empty employer and
\* title, and no two with the same (employer, first 60 characters of the
\* title) key.
C29_BoundedCleanDistinct ==
    (Selected /\ call.target_count >= 1) =>
        /\ Len(vacancies) <= call.target_count
        /\ \A k \in DOMAIN vacancies :
              NonEmptyText(vacancies[k].employer) /\ NonEmptyText(vacancies[k].title)
        /\ \A j, k \in DOMAIN vacancies :
              j /= k => TitleKey(vacancies[j]) /= TitleKey(vacancies[k])

-----------------------------------------------------------------------------
(* Properties of the mark update: what it may change *)

\* the columns of a row that mark_vacancies_as_posted does not write
KeptColumns(row) ==
    [row EXCEPT !.is_posted = FALSE, !.posted_at = None, !.channel_id = None,
                !.updated_at = None]

\* C30: a call of mark_vacancies_as_posted changes only rows whose id is in
\* the list, and of these only is_posted, posted_at, channel_id and
\* updated_at; for an empty list it issues no update and returns success.
C30_MarkChangesOnlyListedRows ==
    [][(call.fn = "mark" /\ call'.calls = call.calls + 1) =>
          /\ \A a \in Ads :
                /\ a \notin call.vacancy_ids => store'[a] = store[a]
                /\ store'[a].present = store[a].present
                /\ store[a].present => KeptColumns(store'[a]) = KeptColumns(store[a])
          /\ call.vacancy_ids = {} =>
                /\ call'.updates = call.updates
                /\ call'.result = Some(TRUE)
                /\ store' = store]_vars

C30_Witness ==
    /\ call.fn = "mark"
    /\ call.updates >= 1
    /\ call.result = Some(TRUE)
    /\ \E a \in call.vacancy_ids :
          /\ store[a].present /\ store[a].is_posted
          /\ store[a].channel_id = Some(call.channel_id)
          /\ store[a].channel_id /= InsertedRow(a, 0).channel_id
    /\ \E a \in Ads \ call.vacancy_ids : store[a].present /\ ~store[a].is_posted
    /\ \E a \in call.vacancy_ids : ~store[a].present

====
